---- MODULE Spec2Model ----
(* Model of route_guide_server.cc: the RouteGuideImpl service with its four  *)
(* handlers (GetFeature, ListFeatures, RecordRoute, RouteChat), the feature  *)
(* list, the note log received_notes_ and its mutex mu_.                      *)
EXTENDS Integers, Sequences, FiniteSets, TLC

VARIABLES
  feature_list_,   \* std::vector<Feature>, filled by the constructor
  received_notes_, \* std::vector<RouteNote>, the note log
  mu_,             \* std::mutex: 0 when free, else the session holding it
  cpc,             \* RouteChat: position of each session's handler
  note,            \* RouteChat: the local RouteNote of each session
  idx,             \* RouteChat: position of the range-for over received_notes_
  out,             \* RouteChat: notes written to the stream for the current note
  snap,            \* history: received_notes_ when the session took the lock
  sent,            \* history: the notes each session has read, in order
  owner,           \* history: the session that appended each entry of the log
  replay,          \* history: per session, the notes written back for each note
  qpc,             \* position of the GetFeature/ListFeatures/RecordRoute call
  gf,              \* GetFeature: request point, response feature, status
  lf,              \* ListFeatures: rectangle, locals, writer output, status
  rr,              \* RecordRoute: locals, points read, summary, status
  now              \* system_clock::now(), in ticks of 1/TicksPerSecond second

chatVars == <<received_notes_, mu_, cpc, note, idx, out, snap, sent, owner, replay>>
queryVars == <<qpc, gf, lf, rr, now>>
vars == <<feature_list_, chatVars, queryVars>>

----------------------------------------------------------------------------
(* Bounds *)
NumSessions == 2
MaxNotes == 3

Sessions == 1..NumSessions
Lats == {0, 200000000}
Lons == {-100000000, 300000000}
Points == [latitude : Lats, longitude : Lons]
Messages == {"m1", "m2"}
ChatPoints == {[latitude |-> 0, longitude |-> -100000000],
               [latitude |-> 0, longitude |-> 300000000]}
Notes == [location : ChatPoints, message : Messages]
NoNote == [location |-> [latitude |-> 0, longitude |-> 0], message |-> ""]

----------------------------------------------------------------------------
(* RouteChat *)
\* a comparison that forgets the longitude
SamePointLatitudeOnly(n, m) == n.location.latitude = m.location.latitude

SamePoint(n, m) ==
  /\ n.location.latitude = m.location.latitude
  /\ n.location.longitude = m.location.longitude

NotesRead == LET RECURSIVE Sum(_)
                 Sum(S) == IF S = {} THEN 0
                           ELSE LET s == CHOOSE x \in S : TRUE
                                IN Len(sent[s]) + Sum(S \ {s})
             IN Sum(Sessions)

\* stream->Read(&note) returns true with the next inbound note
ChatRead(s, n) ==
  /\ cpc[s] = "read"
  /\ note' = [note EXCEPT ![s] = n]
  /\ sent' = [sent EXCEPT ![s] = Append(@, n)]
  /\ cpc' = [cpc EXCEPT ![s] = "lock"]
  /\ UNCHANGED <<feature_list_, queryVars, received_notes_, mu_, idx, out, snap, owner, replay>>

\* stream->Read(&note) returns false: return Status::OK
ChatEnd(s) ==
  /\ cpc[s] = "read"
  /\ cpc' = [cpc EXCEPT ![s] = "done"]
  /\ UNCHANGED <<feature_list_, queryVars, received_notes_, mu_, note, idx, out, snap, sent, owner, replay>>

\* a lock that never makes anyone wait
MutexAlwaysFree == TRUE

\* std::unique_lock<std::mutex> lock(mu_)
MutexFree == mu_ = 0

\* a scan that starts at the second entry
ChatLockSkipFirst(s) ==
  /\ cpc[s] = "lock"
  /\ MutexFree
  /\ mu_' = s
  /\ snap' = [snap EXCEPT ![s] = received_notes_]
  /\ idx' = [idx EXCEPT ![s] = 2]
  /\ out' = [out EXCEPT ![s] = <<>>]
  /\ cpc' = [cpc EXCEPT ![s] = "scan"]
  /\ UNCHANGED <<feature_list_, queryVars, received_notes_, note, sent, owner, replay>>

ChatLock(s) ==
  /\ cpc[s] = "lock"
  /\ MutexFree
  /\ mu_' = s
  /\ snap' = [snap EXCEPT ![s] = received_notes_]
  /\ idx' = [idx EXCEPT ![s] = 1]
  /\ out' = [out EXCEPT ![s] = <<>>]
  /\ cpc' = [cpc EXCEPT ![s] = "scan"]
  /\ UNCHANGED <<feature_list_, queryVars, received_notes_, note, sent, owner, replay>>

\* a scan that passes over the notes the session itself appended
ChatScanOthersOnly(s) ==
  /\ cpc[s] = "scan"
  /\ idx[s] <= Len(received_notes_)
  /\ out' = [out EXCEPT ![s] =
               IF /\ SamePoint(received_notes_[idx[s]], note[s])
                  /\ owner[idx[s]] # s
               THEN Append(@, received_notes_[idx[s]]) ELSE @]
  /\ idx' = [idx EXCEPT ![s] = @ + 1]
  /\ UNCHANGED <<feature_list_, queryVars, received_notes_, mu_, cpc, note, snap, sent, owner, replay>>

\* one iteration of for (const RouteNote& n : received_notes_)
ChatScan(s) ==
  /\ cpc[s] = "scan"
  /\ idx[s] <= Len(received_notes_)
  /\ out' = [out EXCEPT ![s] =
               IF SamePoint(received_notes_[idx[s]], note[s])
               THEN Append(@, received_notes_[idx[s]]) ELSE @]
  /\ idx' = [idx EXCEPT ![s] = @ + 1]
  /\ UNCHANGED <<feature_list_, queryVars, received_notes_, mu_, cpc, note, snap, sent, owner, replay>>

\* a push_back left out when the scan wrote something back
ChatAppendUnlessReplayed(s) ==
  /\ cpc[s] = "scan"
  /\ idx[s] > Len(received_notes_)
  /\ received_notes_' = IF out[s] = <<>> THEN Append(received_notes_, note[s])
                        ELSE received_notes_
  /\ owner' = IF out[s] = <<>> THEN Append(owner, s) ELSE owner
  /\ replay' = [replay EXCEPT ![s] = Append(@, out[s])]
  /\ cpc' = [cpc EXCEPT ![s] = "unlock"]
  /\ UNCHANGED <<feature_list_, queryVars, mu_, note, idx, out, snap, sent>>

\* a push_back done twice
ChatAppendTwice(s) ==
  /\ cpc[s] = "scan"
  /\ idx[s] > Len(received_notes_)
  /\ received_notes_' = received_notes_ \o <<note[s], note[s]>>
  /\ owner' = owner \o <<s, s>>
  /\ replay' = [replay EXCEPT ![s] = Append(@, out[s])]
  /\ cpc' = [cpc EXCEPT ![s] = "unlock"]
  /\ UNCHANGED <<feature_list_, queryVars, mu_, note, idx, out, snap, sent>>

\* a push_back that also writes the note to the sessions whose last note
\* was at the same point
ChatAppendFanOut(s) ==
  /\ cpc[s] = "scan"
  /\ idx[s] > Len(received_notes_)
  /\ received_notes_' = Append(received_notes_, note[s])
  /\ owner' = Append(owner, s)
  /\ replay' = [replay EXCEPT ![s] = Append(@, out[s])]
  /\ cpc' = [cpc EXCEPT ![s] = "unlock"]
  /\ out' = [t \in Sessions |->
               IF t # s /\ SamePoint(note[t], note[s])
               THEN Append(out[t], note[s]) ELSE out[t]]
  /\ UNCHANGED <<feature_list_, queryVars, mu_, note, idx, snap, sent>>

\* an insertion at the front instead of push_back
ChatAppendFront(s) ==
  /\ cpc[s] = "scan"
  /\ idx[s] > Len(received_notes_)
  /\ received_notes_' = <<note[s]>> \o received_notes_
  /\ owner' = <<s>> \o owner
  /\ replay' = [replay EXCEPT ![s] = Append(@, out[s])]
  /\ cpc' = [cpc EXCEPT ![s] = "unlock"]
  /\ UNCHANGED <<feature_list_, queryVars, mu_, note, idx, out, snap, sent>>

\* the loop is over: received_notes_.push_back(note)
ChatAppend(s) ==
  /\ cpc[s] = "scan"
  /\ idx[s] > Len(received_notes_)
  /\ received_notes_' = Append(received_notes_, note[s])
  /\ owner' = Append(owner, s)
  /\ replay' = [replay EXCEPT ![s] = Append(@, out[s])]
  /\ cpc' = [cpc EXCEPT ![s] = "unlock"]
  /\ UNCHANGED <<feature_list_, queryVars, mu_, note, idx, out, snap, sent>>

\* a lock that is kept when the loop body ends
ChatUnlockKeep(s) ==
  /\ cpc[s] = "unlock"
  /\ cpc' = [cpc EXCEPT ![s] = "read"]
  /\ UNCHANGED <<feature_list_, queryVars, received_notes_, mu_, note, idx, out, snap, sent, owner, replay>>

\* end of the loop body: the unique_lock is destroyed
ChatUnlock(s) ==
  /\ cpc[s] = "unlock"
  /\ mu_' = 0
  /\ cpc' = [cpc EXCEPT ![s] = "read"]
  /\ UNCHANGED <<feature_list_, queryVars, received_notes_, note, idx, out, snap, sent, owner, replay>>

NextChat ==
  \/ \E s \in Sessions, n \in Notes : NotesRead < MaxNotes /\ ChatRead(s, n)
  \/ \E s \in Sessions : ChatEnd(s)
  \/ \E s \in Sessions : ChatLock(s)
  \/ \E s \in Sessions : ChatScan(s)
  \/ \E s \in Sessions : ChatAppend(s)
  \/ \E s \in Sessions : ChatUnlock(s)

----------------------------------------------------------------------------
(* Fixed-point arithmetic standing for the float arithmetic of the source:  *)
(* a real x is the integer x * FScale, rounded to nearest.                   *)
FScale == 10000
kCoordFactor == 10000000
R == 6371000
DistUnit == 10   \* a distance is held in units of 1/DistUnit metre

\* a / b rounded to nearest, ties away from zero (b > 0)
RDivPos(a, b) == (a \div b) + (IF 2 * (a % b) >= b THEN 1 ELSE 0)

RDiv(a, b) == IF a >= 0 THEN RDivPos(a, b) ELSE -RDivPos(-a, b)

\* a / b rounded toward zero (b > 0): an integer conversion or division
TDiv(a, b) == IF a >= 0 THEN a \div b ELSE -((-a) \div b)

FMul(a, b) == RDiv(a * b, FScale)

\* num * 3.1415926 / 180, with 355/113 for 3.1415926
ConvertToRadians(num) == RDiv(num * 355, 113 * 180)

\* sin(x) by its Taylor series, |x| <= pi/2
RECURSIVE SinTerms(_, _, _, _)
SinTerms(term, x2, k, acc) ==
  IF term = 0 \/ k > 15 THEN acc
  ELSE LET next == -RDiv(FMul(term, x2), (k + 1) * (k + 2))
       IN SinTerms(next, x2, k + 2, acc + term)

sin(x) == SinTerms(x, FMul(x, x), 1, 0)

\* cos(x) by its Taylor series, |x| <= pi/2
cos(x) == SinTerms(FScale, FMul(x, x), 0, 0)

\* floor of the square root of n >= 0
RECURSIVE ISqrt(_, _, _)
ISqrt(n, lo, hi) ==
  IF lo >= hi THEN lo
  ELSE LET mid == (lo + hi + 1) \div 2
       IN IF mid * mid <= n THEN ISqrt(n, mid, hi) ELSE ISqrt(n, lo, mid - 1)

sqrt(a) == ISqrt(a * FScale, 0, 2 * FScale)

\* atan(t) for 0 <= t <= 1: halve the angle once, then the Taylor series
RECURSIVE AtanTerms(_, _, _, _)
AtanTerms(pw, t2, k, acc) ==
  IF pw = 0 \/ k > 15 THEN acc
  ELSE AtanTerms(-FMul(pw, t2), t2, k + 2, acc + RDiv(pw, k))

atan(t) ==
  LET h == RDiv(t * FScale, FScale + sqrt(FScale + FMul(t, t)))
  IN 2 * AtanTerms(h, FMul(h, h), 1, 0)

HalfPi == 15708

\* atan2(y, x) for y >= 0, x >= 0, not both zero
atan2(y, x) == IF y <= x THEN atan(RDiv(y * FScale, x))
               ELSE HalfPi - atan(RDiv(x * FScale, y))

pow2(x) == FMul(x, x)

\* the haversine with the cosine of the start latitude taken twice
GetDistanceStartLatitude(start, end) ==
  LET lat_1 == RDiv(start.latitude, kCoordFactor \div FScale)
      lat_2 == RDiv(end.latitude, kCoordFactor \div FScale)
      lon_1 == RDiv(start.longitude, kCoordFactor \div FScale)
      lon_2 == RDiv(end.longitude, kCoordFactor \div FScale)
      lat_rad_1 == ConvertToRadians(lat_1)
      delta_lat_rad == ConvertToRadians(lat_2 - lat_1)
      delta_lon_rad == ConvertToRadians(lon_2 - lon_1)
      a == pow2(sin(TDiv(delta_lat_rad, 2)))
           + FMul(FMul(cos(lat_rad_1), cos(lat_rad_1)),
                  pow2(sin(TDiv(delta_lon_rad, 2))))
      c == 2 * atan2(sqrt(a), sqrt(FScale - a))
  IN (R \div (FScale \div DistUnit)) * c

\* the haversine distance of two points, in 1/DistUnit metres
GetDistance(start, end) ==
  LET lat_1 == RDiv(start.latitude, kCoordFactor \div FScale)
      lat_2 == RDiv(end.latitude, kCoordFactor \div FScale)
      lon_1 == RDiv(start.longitude, kCoordFactor \div FScale)
      lon_2 == RDiv(end.longitude, kCoordFactor \div FScale)
      lat_rad_1 == ConvertToRadians(lat_1)
      lat_rad_2 == ConvertToRadians(lat_2)
      delta_lat_rad == ConvertToRadians(lat_2 - lat_1)
      delta_lon_rad == ConvertToRadians(lon_2 - lon_1)
      a == pow2(sin(TDiv(delta_lat_rad, 2)))
           + FMul(FMul(cos(lat_rad_1), cos(lat_rad_2)),
                  pow2(sin(TDiv(delta_lon_rad, 2))))
      c == 2 * atan2(sqrt(a), sqrt(FScale - a))
  IN (R \div (FScale \div DistUnit)) * c


----------------------------------------------------------------------------
(* The feature list and the three handlers that only read it *)
MaxCatalog == 2
MaxRoute == 3
MaxTime == 4
TicksPerSecond == 2

Names == {"", "A", "B"}
CatalogPoints == {[latitude |-> 0, longitude |-> -100000000],
                  [latitude |-> 200000000, longitude |-> 300000000]}
Features == [name : Names, location : CatalogPoints]
Catalogs == UNION {[1..n -> Features] : n \in 0..MaxCatalog}
Rectangles == [lo : Points, hi : Points]

DefaultPoint == [latitude |-> 0, longitude |-> 0]
DefaultFeature == [name |-> "", location |-> DefaultPoint]
DefaultSummary == [point_count |-> 0, feature_count |-> 0,
                   distance |-> 0, elapsed_time |-> 0]

min(x, y) == IF y < x THEN y ELSE x
max(x, y) == IF x < y THEN y ELSE x

\* a scan that passes over the entries without a name
RECURSIVE GetFeatureNameSkipEmpty(_, _, _)
GetFeatureNameSkipEmpty(point, feature_list, i) ==
  IF i > Len(feature_list) THEN ""
  ELSE IF /\ feature_list[i].location.latitude = point.latitude
          /\ feature_list[i].location.longitude = point.longitude
          /\ feature_list[i].name # ""
       THEN feature_list[i].name
       ELSE GetFeatureNameSkipEmpty(point, feature_list, i + 1)

\* a scan that goes on after a match and keeps the last name found
RECURSIVE GetFeatureNameLast(_, _, _)
GetFeatureNameLast(point, feature_list, i) ==
  IF i > Len(feature_list) THEN ""
  ELSE LET rest == GetFeatureNameLast(point, feature_list, i + 1)
       IN IF /\ feature_list[i].location.latitude = point.latitude
             /\ feature_list[i].location.longitude = point.longitude
             /\ rest = ""
          THEN feature_list[i].name
          ELSE rest

\* the name of the first feature of the list at exactly this point, or ""
RECURSIVE GetFeatureNameFrom(_, _, _)
GetFeatureNameFrom(point, feature_list, i) ==
  IF i > Len(feature_list) THEN ""
  ELSE IF /\ feature_list[i].location.latitude = point.latitude
          /\ feature_list[i].location.longitude = point.longitude
       THEN feature_list[i].name
       ELSE GetFeatureNameFrom(point, feature_list, i + 1)

GetFeatureName(point, feature_list) == GetFeatureNameFrom(point, feature_list, 1)

gfIdle == [point |-> DefaultPoint, feature |-> DefaultFeature, status |-> "none"]
lfIdle == [rectangle |-> [lo |-> DefaultPoint, hi |-> DefaultPoint],
           left |-> 0, right |-> 0, top |-> 0, bottom |-> 0,
           i |-> 0, written |-> <<>>, status |-> "none"]
rrIdle == [point_count |-> 0, feature_count |-> 0, distance |-> 0,
           previous |-> DefaultPoint, points |-> <<>>, emitted |-> 0,
           start_time |-> 0, end_time |-> 0, first_time |-> 0,
           summary |-> DefaultSummary, status |-> "none"]

\* the not-found alternative the source leaves commented out
GetFeatureStatusNotFound(name) == IF name = "" THEN "NOT_FOUND" ELSE "OK"

\* GetFeature: set_name, CopyFrom, return Status::OK
GetFeatureStatus(name) == "OK"

\* a GetFeature that stores its answer in the feature list
GetFeatureStoring(point) ==
  /\ qpc = "idle"
  /\ LET name == GetFeatureName(point, feature_list_)
     IN /\ gf' = [point |-> point,
                  feature |-> [name |-> name, location |-> point],
                  status |-> GetFeatureStatus(name)]
        /\ feature_list_' = Append(feature_list_, [name |-> name, location |-> point])
  /\ qpc' = "gf_done"
  /\ UNCHANGED <<now, chatVars, lf, rr>>

GetFeature(point) ==
  /\ qpc = "idle"
  /\ LET name == GetFeatureName(point, feature_list_)
     IN gf' = [point |-> point,
               feature |-> [name |-> name, location |-> point],
               status |-> GetFeatureStatus(name)]
  /\ qpc' = "gf_done"
  /\ UNCHANGED <<feature_list_, now, chatVars, lf, rr>>

\* the corners taken as given, lo for the low side and hi for the high side
NormalizeAsGiven(rectangle) ==
  [left |-> rectangle.lo.longitude, right |-> rectangle.hi.longitude,
   top |-> rectangle.hi.latitude, bottom |-> rectangle.lo.latitude]

\* ListFeatures: the four locals computed from the rectangle
Normalize(rectangle) ==
  [left |-> min(rectangle.lo.longitude, rectangle.hi.longitude),
   right |-> max(rectangle.lo.longitude, rectangle.hi.longitude),
   top |-> max(rectangle.lo.latitude, rectangle.hi.latitude),
   bottom |-> min(rectangle.lo.latitude, rectangle.hi.latitude)]

ListFeaturesCall(rectangle) ==
  /\ qpc = "idle"
  /\ LET b == Normalize(rectangle)
     IN lf' = [rectangle |-> rectangle,
               left |-> b.left, right |-> b.right,
               top |-> b.top, bottom |-> b.bottom,
               i |-> 1, written |-> <<>>, status |-> "none"]
  /\ qpc' = "lf_loop"
  /\ UNCHANGED <<feature_list_, now, chatVars, gf, rr>>

\* a test that leaves the right and top edges out
InBoxHalfOpen(f, left, right, top, bottom) ==
  /\ f.location.longitude >= left
  /\ f.location.longitude < right
  /\ f.location.latitude >= bottom
  /\ f.location.latitude < top

\* the test of the loop body on feature f
InBox(f, left, right, top, bottom) ==
  /\ f.location.longitude >= left
  /\ f.location.longitude <= right
  /\ f.location.latitude >= bottom
  /\ f.location.latitude <= top

\* one iteration of for (const Feature& f : feature_list_)
ListFeaturesStep ==
  /\ qpc = "lf_loop"
  /\ lf.i <= Len(feature_list_)
  /\ LET f == feature_list_[lf.i]
     IN lf' = [lf EXCEPT !.i = @ + 1,
                         !.written = IF InBox(f, lf.left, lf.right, lf.top, lf.bottom)
                                     THEN Append(@, f) ELSE @]
  /\ UNCHANGED <<feature_list_, now, chatVars, qpc, gf, rr>>

\* the loop is over: return Status::OK
ListFeaturesReturn ==
  /\ qpc = "lf_loop"
  /\ lf.i > Len(feature_list_)
  /\ lf' = [lf EXCEPT !.status = "OK"]
  /\ qpc' = "lf_done"
  /\ UNCHANGED <<feature_list_, now, chatVars, gf, rr>>

\* RecordRoute: the declarations before the loop
RecordRouteCall ==
  /\ qpc = "idle"
  /\ rr' = [rrIdle EXCEPT !.start_time = now]
  /\ qpc' = "rr_read"
  /\ UNCHANGED <<feature_list_, now, chatVars, gf, lf>>

\* the leg without the test on point_count
LegUnguarded(point_count, previous, point) == GetDistance(previous, point)

\* what one point adds to distance
Leg(point_count, previous, point) ==
  IF point_count # 1 THEN GetDistance(previous, point) ELSE 0

\* the test of the name without its negation
IsFeatureInverted(name) == name = ""

\* !GetFeatureName(point, feature_list_).empty()
IsFeature(name) == name # ""

\* reader->Read(&point) returns true: one pass of the loop body
RecordRouteRead(point) ==
  /\ qpc = "rr_read"
  /\ LET pc1 == rr.point_count + 1
     IN rr' = [rr EXCEPT
                 !.point_count = pc1,
                 !.feature_count =
                    IF IsFeature(GetFeatureName(point, feature_list_))
                    THEN @ + 1 ELSE @,
                 !.distance = @ + Leg(pc1, rr.previous, point),
                 !.previous = point,
                 !.first_time = IF rr.point_count = 0 THEN now ELSE @,
                 !.points = Append(@, point)]
  /\ UNCHANGED <<feature_list_, now, chatVars, qpc, gf, lf>>

\* static_cast<long>(distance)
ToLong(distance) == TDiv(distance, DistUnit)

\* duration_cast<seconds>(end_time - start_time).count()
Seconds(start_time, end_time) == TDiv(end_time - start_time, TicksPerSecond)

\* reader->Read(&point) returns false: fill the summary, return Status::OK
RecordRouteEnd ==
  /\ qpc = "rr_read"
  /\ rr' = [rr EXCEPT
              !.end_time = now,
              !.summary = [point_count |-> rr.point_count,
                           feature_count |-> rr.feature_count,
                           distance |-> ToLong(rr.distance),
                           elapsed_time |-> Seconds(rr.start_time, now)],
              !.emitted = @ + 1,
              !.status = "OK"]
  /\ qpc' = "rr_done"
  /\ UNCHANGED <<feature_list_, now, chatVars, gf, lf>>

\* the call is over; the worker takes the next call
QueryDone ==
  /\ qpc \in {"gf_done", "lf_done", "rr_done"}
  /\ qpc' = "idle"
  /\ gf' = gfIdle
  /\ lf' = lfIdle
  /\ rr' = rrIdle
  /\ UNCHANGED <<feature_list_, now, chatVars>>

\* the wall clock advances
Tick ==
  /\ now' = now + 1
  /\ UNCHANGED <<feature_list_, chatVars, qpc, gf, lf, rr>>

NextQuery ==
  \/ \E p \in Points : GetFeature(p)
  \/ \E r \in Rectangles : ListFeaturesCall(r)
  \/ ListFeaturesStep
  \/ ListFeaturesReturn
  \/ RecordRouteCall
  \/ \E p \in Points : rr.point_count < MaxRoute /\ RecordRouteRead(p)
  \/ RecordRouteEnd
  \/ QueryDone

----------------------------------------------------------------------------
(* Specifications *)
\* the chat sessions alone, on a service with an empty feature list
ChatOnlyInit ==
  /\ received_notes_ = <<>> /\ mu_ = 0 /\ owner = <<>>
  /\ cpc = [s \in Sessions |-> "read"]
  /\ note = [s \in Sessions |-> NoNote]
  /\ idx = [s \in Sessions |-> 0]
  /\ out = [s \in Sessions |-> <<>>]
  /\ snap = [s \in Sessions |-> <<>>]
  /\ sent = [s \in Sessions |-> <<>>]
  /\ replay = [s \in Sessions |-> <<>>]
  /\ feature_list_ = <<>>
  /\ qpc = "idle" /\ gf = gfIdle /\ lf = lfIdle /\ rr = rrIdle /\ now = 0

SpecChat == ChatOnlyInit /\ [][NextChat]_vars

\* the three read-only handlers alone, on every feature list, no chat session
\* ever reading a note
QueryOnlyInit ==
  /\ received_notes_ = <<>> /\ mu_ = 0 /\ owner = <<>>
  /\ cpc = [s \in Sessions |-> "read"]
  /\ note = [s \in Sessions |-> NoNote]
  /\ idx = [s \in Sessions |-> 0]
  /\ out = [s \in Sessions |-> <<>>]
  /\ snap = [s \in Sessions |-> <<>>]
  /\ sent = [s \in Sessions |-> <<>>]
  /\ replay = [s \in Sessions |-> <<>>]
  /\ feature_list_ \in Catalogs
  /\ qpc = "idle" /\ gf = gfIdle /\ lf = lfIdle /\ rr = rrIdle /\ now = 0

SpecQuery == QueryOnlyInit /\ [][NextQuery]_vars

\* the three read-only handlers with the clock running, on the feature lists
\* of at most one entry
TimeInit ==
  /\ received_notes_ = <<>> /\ mu_ = 0 /\ owner = <<>>
  /\ cpc = [s \in Sessions |-> "read"]
  /\ note = [s \in Sessions |-> NoNote]
  /\ idx = [s \in Sessions |-> 0]
  /\ out = [s \in Sessions |-> <<>>]
  /\ snap = [s \in Sessions |-> <<>>]
  /\ sent = [s \in Sessions |-> <<>>]
  /\ replay = [s \in Sessions |-> <<>>]
  /\ feature_list_ \in {c \in Catalogs : Len(c) <= 1}
  /\ qpc = "idle" /\ gf = gfIdle /\ lf = lfIdle /\ rr = rrIdle /\ now = 0

NextTime ==
  \/ \E p \in Points : GetFeature(p)
  \/ \E r \in Rectangles : ListFeaturesCall(r)
  \/ ListFeaturesStep
  \/ ListFeaturesReturn
  \/ RecordRouteCall
  \/ \E p \in Points : rr.point_count < MaxRoute /\ RecordRouteRead(p)
  \/ RecordRouteEnd
  \/ QueryDone
  \/ now < MaxTime /\ Tick

SpecTime == TimeInit /\ [][NextTime]_vars

\* all four handlers together: the chat sessions and one call at a time of the
\* other three, on one feature list, every client sending the same few inputs
AllMaxNotes == 2
AllMaxRoute == 1

AllNote == [location |-> [latitude |-> 0, longitude |-> -100000000], message |-> "m1"]
AllPoint == [latitude |-> 0, longitude |-> -100000000]
AllRectangle == [lo |-> [latitude |-> 200000000, longitude |-> -100000000],
                 hi |-> [latitude |-> 0, longitude |-> 300000000]]
AllCatalog == <<[name |-> "A", location |-> [latitude |-> 0, longitude |-> -100000000]]>>

AllInit ==
  /\ received_notes_ = <<>> /\ mu_ = 0 /\ owner = <<>>
  /\ cpc = [s \in Sessions |-> "read"]
  /\ note = [s \in Sessions |-> NoNote]
  /\ idx = [s \in Sessions |-> 0]
  /\ out = [s \in Sessions |-> <<>>]
  /\ snap = [s \in Sessions |-> <<>>]
  /\ sent = [s \in Sessions |-> <<>>]
  /\ replay = [s \in Sessions |-> <<>>]
  /\ feature_list_ = AllCatalog
  /\ qpc = "idle" /\ gf = gfIdle /\ lf = lfIdle /\ rr = rrIdle /\ now = 0

NextAll ==
  \/ \E s \in Sessions : NotesRead < AllMaxNotes /\ ChatRead(s, AllNote)
  \/ \E s \in Sessions : ChatEnd(s)
  \/ \E s \in Sessions : ChatLock(s)
  \/ \E s \in Sessions : ChatScan(s)
  \/ \E s \in Sessions : ChatAppend(s)
  \/ \E s \in Sessions : ChatUnlock(s)
  \/ GetFeature(AllPoint)
  \/ ListFeaturesCall(AllRectangle)
  \/ ListFeaturesStep
  \/ ListFeaturesReturn
  \/ RecordRouteCall
  \/ rr.point_count < AllMaxRoute /\ RecordRouteRead(AllPoint)
  \/ RecordRouteEnd
  \/ QueryDone

SpecAll == AllInit /\ [][NextAll]_vars

\* every handler thread is scheduled again and again, the mutex is granted to
\* each waiter in the end, and every inbound stream ends
Fairness ==
  /\ \A s \in Sessions :
       /\ SF_vars(ChatLock(s))
       /\ WF_vars(ChatScan(s))
       /\ WF_vars(ChatAppend(s))
       /\ WF_vars(ChatUnlock(s))
       /\ WF_vars(ChatEnd(s))
  /\ WF_vars(ListFeaturesStep)
  /\ WF_vars(ListFeaturesReturn)
  /\ WF_vars(RecordRouteEnd)

FairSpec == AllInit /\ [][NextAll]_vars /\ Fairness

----------------------------------------------------------------------------
(* Properties of RouteChat *)
\* the entries of log at the point of note n, in the order of log
RECURSIVE Matching(_, _)
Matching(log, n) ==
  IF log = <<>> THEN <<>>
  ELSE LET h == Head(log)
       IN (IF h.location = n.location THEN <<h>> ELSE <<>>) \o Matching(Tail(log), n)

IsPrefix(a, b) == Len(a) <= Len(b) /\ a = SubSeq(b, 1, Len(a))

InCritical(s) == cpc[s] \in {"scan", "unlock"}

(* C1: while a session handles an inbound note n, what it has written back   *)
(* is the part scanned so far of the notes that were in the log when it took  *)
(* the lock and have n's point, in append order, and the log is still that    *)
(* log; once n is appended the written notes are exactly those notes and the  *)
(* log is that log followed by n, so n is not one of the entries written.     *)
C1_ReplayIsLogAtLock ==
  \A s \in Sessions :
    /\ cpc[s] = "scan" =>
         /\ received_notes_ = snap[s]
         /\ out[s] = Matching(SubSeq(snap[s], 1, idx[s] - 1), note[s])
    /\ cpc[s] = "unlock" =>
         /\ out[s] = Matching(snap[s], note[s])
         /\ received_notes_ = Append(snap[s], note[s])

\* a session has appended its note after a scan that wrote back one of the
\* two entries of the log and passed over the other
C1_Witness ==
  \E s \in Sessions :
    /\ cpc[s] = "unlock"
    /\ Len(snap[s]) = 2
    /\ out[s] = <<snap[s][2]>>
    /\ snap[s][1].location # note[s].location
    /\ received_notes_[3] = note[s]

(* C2: at most one session is between taking and releasing the lock, it is   *)
(* the one recorded as the holder, and while a session is between the start   *)
(* of its scan and the append of its note no other session scans, writes or   *)
(* appends: the log changes only by that session appending its own note.      *)
C2_Exclusion ==
  /\ \A s, t \in Sessions : InCritical(s) /\ InCritical(t) => s = t
  /\ \A s \in Sessions : InCritical(s) <=> mu_ = s

C2_Step ==
  \A s \in Sessions :
    cpc[s] = "scan" =>
      /\ \A t \in Sessions \ {s} :
           idx'[t] = idx[t] /\ out'[t] = out[t] /\ snap'[t] = snap[t]
      /\ received_notes_' # received_notes_ =>
           /\ cpc'[s] = "unlock"
           /\ received_notes_' = Append(received_notes_, note[s])

C2_CriticalSection == [](C2_Exclusion) /\ [][C2_Step]_vars

\* one session is about to scan the entry of the log while another, its note
\* read, waits for the lock
C2_Witness ==
  \E s, t \in Sessions :
    /\ s # t
    /\ cpc[s] = "scan" /\ idx[s] = 1 /\ Len(received_notes_) = 1
    /\ cpc[t] = "lock"

(* C3: the log only grows by appending: in every step the log before the     *)
(* step is a prefix of the log after it.                                       *)
C3_AppendOnly == [][IsPrefix(received_notes_, received_notes_')]_vars

\* the log holds three entries, not all equal, appended by both sessions
C3_Witness ==
  /\ Len(received_notes_) = 3
  /\ received_notes_[1] # received_notes_[3]
  /\ owner[1] # owner[2]

(* C4: from an empty log, when one session's note N1 at point Q is in the    *)
(* log and another session B handles N2 at Q, B has been written N1, and      *)
(* only N1, when its scan is over and N2 is not yet in the log, and that is   *)
(* B's whole replay for N2; and an entry appended at a point where the log    *)
(* held no note got an empty replay, whichever session sent it.               *)
\* the number of entries of the log up to j that session s appended
RECURSIVE CountOwner(_, _)
CountOwner(s, j) ==
  IF j = 0 THEN 0 ELSE CountOwner(s, j - 1) + (IF owner[j] = s THEN 1 ELSE 0)

C4_TwoSessions ==
  /\ \A b \in Sessions :
       /\ ( /\ cpc[b] = "scan" /\ idx[b] > Len(received_notes_)
            /\ Len(received_notes_) = 1 /\ owner[1] # b
            /\ note[b].location = received_notes_[1].location )
          => out[b] = <<received_notes_[1]>>
       /\ ( /\ Len(received_notes_) >= 2 /\ owner[1] # b /\ owner[2] = b
            /\ received_notes_[2].location = received_notes_[1].location )
          => replay[b][1] = <<received_notes_[1]>>
  /\ \A j \in 1..Len(received_notes_) :
       (\A i \in 1..(j - 1) : received_notes_[i].location # received_notes_[j].location)
         => replay[owner[j]][CountOwner(owner[j], j)] = <<>>

\* N1 by one session, N2 at the same point by the other, N3 elsewhere
C4_Witness ==
  /\ Len(received_notes_) = 3
  /\ owner[1] # owner[2]
  /\ received_notes_[1].location = received_notes_[2].location
  /\ received_notes_[1].message # received_notes_[2].message
  /\ received_notes_[3].location # received_notes_[1].location
  /\ replay[owner[2]][1] = <<received_notes_[1]>>

----------------------------------------------------------------------------
(* Properties of GetFeature, ListFeatures and RecordRoute *)
\* the positions of the feature list at exactly point p
At(p) == {i \in 1..Len(feature_list_) : feature_list_[i].location = p}

\* the least element of a non-empty set of integers
Least(S) == CHOOSE i \in S : \A j \in S : i <= j

\* the name of the first entry at p, the empty string when there is none
FirstNameAt(p) == IF At(p) = {} THEN "" ELSE feature_list_[Least(At(p))].name

(* C5: a finished GetFeature call has status OK, whatever the point and the  *)
(* feature list; its feature carries the request point as location and the    *)
(* name found for it, which is empty when no entry is at that point.          *)
C5_GetFeatureAlwaysOK ==
  qpc = "gf_done" =>
    /\ gf.status = "OK"
    /\ gf.feature.location = gf.point
    /\ gf.feature.name = GetFeatureName(gf.point, feature_list_)
    /\ At(gf.point) = {} => gf.feature.name = ""

\* a call on a point of no entry of a non-empty list has returned
C5_Witness ==
  /\ qpc = "gf_done"
  /\ feature_list_ # <<>>
  /\ At(gf.point) = {}
  /\ gf.status = "OK"

(* C6: the name GetFeatureName returns for a point is the name of the first  *)
(* entry of the list, in list order, whose latitude and longitude both equal  *)
(* the point's, also when later entries are at the same point, and it is the  *)
(* empty string when no entry is at that point.                               *)
C6_FirstMatchWins ==
  /\ \A p \in Points : GetFeatureName(p, feature_list_) = FirstNameAt(p)
  /\ qpc = "gf_done" => gf.feature.name = FirstNameAt(gf.point)

\* two entries at the request point under different names: the first is returned
C6_Witness ==
  /\ qpc = "gf_done"
  /\ At(gf.point) = {1, 2}
  /\ feature_list_[1].name # feature_list_[2].name
  /\ feature_list_[2].name # ""
  /\ gf.feature.name = feature_list_[1].name

\* the least and the greatest of two numbers, by their defining property
LeastOf(x, y) == CHOOSE m \in {x, y} : m <= x /\ m <= y
GreatestOf(x, y) == CHOOSE m \in {x, y} : m >= x /\ m >= y

\* f lies in the closed box spanned by the two corners of rectangle r
InRectangle(f, r) ==
  /\ LeastOf(r.lo.longitude, r.hi.longitude) <= f.location.longitude
  /\ f.location.longitude <= GreatestOf(r.lo.longitude, r.hi.longitude)
  /\ LeastOf(r.lo.latitude, r.hi.latitude) <= f.location.latitude
  /\ f.location.latitude <= GreatestOf(r.lo.latitude, r.hi.latitude)

\* the entries of the sequence fs inside rectangle r, in the order of fs
RECURSIVE Inside(_, _)
Inside(fs, r) ==
  IF fs = <<>> THEN <<>>
  ELSE (IF InRectangle(Head(fs), r) THEN <<Head(fs)>> ELSE <<>>) \o Inside(Tail(fs), r)

(* C7: ListFeatures writes the entries of the feature list that lie in the   *)
(* closed box of the rectangle's corners (bounds included on both axes), in   *)
(* list order and each once: during the loop what is written is that          *)
(* subsequence of the entries passed so far, and the call returns OK with     *)
(* the subsequence of the whole list.                                          *)
C7_ListFeaturesSubsequence ==
  /\ qpc = "lf_loop" =>
       lf.written = Inside(SubSeq(feature_list_, 1, lf.i - 1), lf.rectangle)
  /\ qpc = "lf_done" =>
       /\ lf.written = Inside(feature_list_, lf.rectangle)
       /\ lf.status = "OK"

\* a finished call wrote one of two entries: the one on the edge of a box
\* that is not a single point
C7_Witness ==
  /\ qpc = "lf_done"
  /\ Len(feature_list_) = 2
  /\ lf.rectangle.lo.longitude # lf.rectangle.hi.longitude
  /\ lf.written = <<feature_list_[2]>>

\* what ListFeatures writes for rectangle r, by the source's locals and test
Emitted(r) ==
  LET b == Normalize(r)
  IN SelectSeq(feature_list_, LAMBDA f : InBox(f, b.left, b.right, b.top, b.bottom))

Swapped(r) == [lo |-> r.hi, hi |-> r.lo]

\* the normalized box as a rectangle again
AsRectangle(b) == [lo |-> [latitude |-> b.bottom, longitude |-> b.left],
                   hi |-> [latitude |-> b.top, longitude |-> b.right]]

(* C8: the locals of a ListFeatures call are those of the call with lo and   *)
(* hi exchanged, normalizing the normalized box changes nothing, and what a   *)
(* finished call has written is what the call on the exchanged corners writes. *)
C8_SwapSymmetric ==
  qpc \in {"lf_loop", "lf_done"} =>
    LET r == lf.rectangle
        b == [left |-> lf.left, right |-> lf.right, top |-> lf.top, bottom |-> lf.bottom]
    IN /\ Normalize(Swapped(r)) = b
       /\ Normalize(AsRectangle(b)) = b
       /\ qpc = "lf_done" => lf.written = Emitted(Swapped(r))

\* a finished call whose lo corner is east and south of its hi corner
C8_Witness ==
  /\ qpc = "lf_done"
  /\ lf.rectangle.lo.longitude > lf.rectangle.hi.longitude
  /\ lf.rectangle.lo.latitude < lf.rectangle.hi.latitude
  /\ Len(lf.written) = 2

(* C9: while RecordRoute is reading points nothing has been emitted; when    *)
(* the stream has ended exactly one summary has been, with status OK, its     *)
(* point_count the number of points read and its feature_count the number of  *)
(* points read at which the feature list has a first entry with a name.       *)
C9_OneSummaryAtEnd ==
  /\ qpc = "rr_read" =>
       rr.emitted = 0 /\ rr.summary = DefaultSummary /\ rr.status = "none"
  /\ qpc = "rr_done" =>
       /\ rr.emitted = 1
       /\ rr.status = "OK"
       /\ rr.summary.point_count = Len(rr.points)
       /\ rr.summary.feature_count =
            Cardinality({i \in 1..Len(rr.points) : FirstNameAt(rr.points[i]) # ""})

\* three points read, two of them at named features
C9_Witness ==
  /\ qpc = "rr_done"
  /\ rr.summary.point_count = 3
  /\ rr.summary.feature_count = 2

\* GetDistance on every pair of points, computed once: the triples <<p, q, d>>
DistanceTable == {<<p, q, GetDistance(p, q)>> : p \in Points, q \in Points}

\* GetDistance(p, q), read from the table
Distance(p, q) == (CHOOSE t \in DistanceTable : t[1] = p /\ t[2] = q)[3]

\* the sum of the distances between consecutive points of ps
RECURSIVE PathLength(_)
PathLength(ps) ==
  IF Len(ps) < 2 THEN 0
  ELSE Distance(ps[1], ps[2]) + PathLength(Tail(ps))

(* C10: the distance of the summary is the sum of the distances between      *)
(* consecutive points in the order read, cut to whole metres; one point       *)
(* gives point_count 1 and distance 0, three points give point_count 3 and    *)
(* the sum of the two legs.                                                    *)
C10_DistanceIsPathLength ==
  qpc = "rr_done" =>
    /\ rr.summary.distance * DistUnit <= PathLength(rr.points)
    /\ PathLength(rr.points) < (rr.summary.distance + 1) * DistUnit
    /\ Len(rr.points) = 1 =>
         rr.summary.point_count = 1 /\ rr.summary.distance = 0
    /\ Len(rr.points) = 3 =>
         /\ rr.summary.point_count = 3
         /\ rr.summary.distance =
              (Distance(rr.points[1], rr.points[2])
                 + Distance(rr.points[2], rr.points[3])) \div DistUnit

\* three different points, and cutting each leg first would give less
C10_Witness ==
  /\ qpc = "rr_done"
  /\ Len(rr.points) = 3
  /\ rr.points[1] # rr.points[2] /\ rr.points[2] # rr.points[3]
  /\ rr.summary.distance >
       Distance(rr.points[1], rr.points[2]) \div DistUnit
         + Distance(rr.points[2], rr.points[3]) \div DistUnit

----------------------------------------------------------------------------
(* Properties of the elapsed time and of degenerate inputs *)
(* C11: the elapsed_time of a RecordRoute summary is the time from the first *)
(* point read to the end of the stream, in whole seconds: what passes between *)
(* the start of the call and the first point is not counted.                  *)
C11_ElapsedFromFirstPoint ==
  (qpc = "rr_done" /\ rr.points # <<>>) =>
    rr.summary.elapsed_time = (rr.end_time - rr.first_time) \div TicksPerSecond

(* C12: degenerate inputs give empty results and status OK: on an empty      *)
(* feature list GetFeature returns an empty name and ListFeatures writes      *)
(* nothing; RecordRoute on a stream without points returns OK and a summary   *)
(* whose four fields are zero; a note handled on an empty log gets no note    *)
(* written back.                                                               *)
C12_DegenerateInputs ==
  /\ (qpc = "gf_done" /\ feature_list_ = <<>>) =>
       gf.status = "OK" /\ gf.feature.name = ""
  /\ (qpc = "lf_done" /\ feature_list_ = <<>>) =>
       lf.status = "OK" /\ lf.written = <<>>
  /\ (qpc = "rr_done" /\ rr.points = <<>>) =>
       /\ rr.status = "OK"
       /\ rr.summary = [point_count |-> 0, feature_count |-> 0,
                        distance |-> 0, elapsed_time |-> 0]
  /\ \A s \in Sessions :
       (cpc[s] \in {"scan", "unlock"} /\ snap[s] = <<>>) => out[s] = <<>>

----------------------------------------------------------------------------
(* Properties of all the handlers together *)
\* session s has returned OK and each note it read is in the log
ChatFinished(s) == cpc[s] = "done" /\ CountOwner(s, Len(owner)) = Len(sent[s])

(* C13: with fair scheduling of the handlers and of the lock, and inbound    *)
(* streams that end, every RouteChat session ends up returned with each note  *)
(* it read appended to the log, every ListFeatures call and every             *)
(* RecordRoute call that is running ends up returned with status OK, and a    *)
(* GetFeature call is returned with status OK, the other calls running along. *)
C13_EveryCallReturns ==
  /\ \A s \in Sessions : <>[]ChatFinished(s)
  /\ (qpc = "lf_loop") ~> (qpc = "lf_done" /\ lf.status = "OK")
  /\ (qpc = "rr_read") ~> (qpc = "rr_done" /\ rr.status = "OK")
  /\ [](qpc = "gf_done" => gf.status = "OK")

\* every session has returned, two of them having appended a note, while a
\* RecordRoute call has returned
C13_Witness ==
  /\ \A s \in Sessions : ChatFinished(s)
  /\ Len(owner) = 2 /\ owner[1] # owner[2]
  /\ qpc = "rr_done" /\ rr.point_count = 1

(* C14: a step of GetFeature, ListFeatures or RecordRoute leaves the log and *)
(* the mutex as they are, so these handlers never take the lock, and no step  *)
(* of any handler, RouteChat included, changes the feature list.              *)
C14_Step ==
  /\ feature_list_' = feature_list_
  /\ <<qpc, gf, lf, rr>>' # <<qpc, gf, lf, rr>> =>
       /\ received_notes_' = received_notes_
       /\ mu_' = mu_

C14_Frame == [][C14_Step]_vars

\* a ListFeatures call has written a feature and returned while a chat session
\* holds the lock on a log of one note
C14_Witness ==
  /\ qpc = "lf_done" /\ Len(lf.written) = 1
  /\ mu_ # 0
  /\ Len(received_notes_) = 1
  /\ feature_list_ = AllCatalog

(* C15: a session is written to only in its own steps while it handles a     *)
(* note it read, between taking the lock and the end of its scan; the step    *)
(* that appends a note writes to no session; and every note written to a      *)
(* session handling a note is at the point of that note.                      *)
C15_Step ==
  /\ \A t \in Sessions :
       out'[t] # out[t] =>
         /\ cpc[t] \in {"lock", "scan"}
         /\ cpc'[t] = "scan"
         /\ mu_' = t
  /\ received_notes_' # received_notes_ => out' = out

C15_WrittenAtOwnPoint ==
  \A t \in Sessions :
    cpc[t] \in {"scan", "unlock"} =>
      \A k \in 1..Len(out[t]) : out[t][k].location = note[t].location

C15_NoFanOut == [](C15_WrittenAtOwnPoint) /\ [][C15_Step]_vars

\* a session that handled a note and waits for its next one has been written
\* nothing, while another session has just appended a note at the same point
C15_Witness ==
  \E s, t \in Sessions :
    /\ s # t
    /\ owner = <<t, s>>
    /\ received_notes_[1].location = received_notes_[2].location
    /\ cpc[t] = "read" /\ out[t] = <<>>
    /\ cpc[s] = "unlock" /\ out[s] = <<received_notes_[1]>>

----------------------------------------------------------------------------
(* Further properties of GetDistance, RouteChat and RecordRoute *)
(* C16: the distance of a point to itself is zero and the distance of two    *)
(* points is the same in both directions, for the points a RecordRoute call   *)
(* has read.                                                                   *)
C16_DistanceZeroAndSymmetric ==
  qpc \in {"rr_read", "rr_done"} =>
    \A i, j \in 1..Len(rr.points) :
      /\ <<rr.points[i], rr.points[i], 0>> \in DistanceTable
      /\ \E t \in DistanceTable :
           /\ t[1] = rr.points[i] /\ t[2] = rr.points[j]
           /\ <<rr.points[j], rr.points[i], t[3]>> \in DistanceTable

\* two points that differ in latitude and in longitude have been read, and the
\* distance accumulated is the distance taken backwards, which is not zero
C16_Witness ==
  /\ qpc = "rr_read"
  /\ Len(rr.points) = 2
  /\ rr.points[1].latitude # rr.points[2].latitude
  /\ rr.points[1].longitude # rr.points[2].longitude
  /\ rr.distance = Distance(rr.points[2], rr.points[1])
  /\ rr.distance > 0

(* C17: a session holds the lock only between having read a note and having *)
(* appended it: not while it waits for its next note, not while it waits for  *)
(* the lock, not after its stream has ended; so when every other session is   *)
(* idle, waiting or finished, a session waiting for the lock can take it.     *)
C17_LockOnlyWhileHandling ==
  \A s \in Sessions :
    /\ mu_ = s => cpc[s] \in {"scan", "unlock"}
    /\ ( /\ cpc[s] = "lock"
         /\ \A t \in Sessions \ {s} : cpc[t] \in {"read", "lock", "done"} )
       => ENABLED ChatLock(s)

\* a session waits for the lock while another, having appended a note, has
\* finished
C17_Witness ==
  \E s, t \in Sessions :
    /\ s # t
    /\ cpc[s] = "lock"
    /\ cpc[t] = "done" /\ Len(sent[t]) >= 1
    /\ Len(received_notes_) >= 1

\* the entries of the log that session s appended, in the order of the log
RECURSIVE OwnedFrom(_, _)
OwnedFrom(s, j) ==
  IF j > Len(received_notes_) THEN <<>>
  ELSE (IF owner[j] = s THEN <<received_notes_[j]>> ELSE <<>>) \o OwnedFrom(s, j + 1)

OwnedBy(s) == OwnedFrom(s, 1)

\* session s has read a note that it has not appended yet
Pending(s) == cpc[s] \in {"lock", "scan"}

\* the sequence q without its last element
Front(q) == SubSeq(q, 1, Len(q) - 1)

(* C18, as stated: whenever no session is inside the critical section, the   *)
(* length of the log is the number of notes read so far and the entries of    *)
(* each session in the log are the notes it read, in the order it read them.  *)
C18_AsStated ==
  (\A s \in Sessions : ~InCritical(s)) =>
    /\ Len(received_notes_) = NotesRead
    /\ \A s \in Sessions : OwnedBy(s) = sent[s]

(* C18, amended: whenever no session is inside the critical section or       *)
(* waiting for the lock with a note it has read, the length of the log is     *)
(* the number of notes read so far; and in every state the entries of each    *)
(* session in the log are the notes it read, in the order it read them,       *)
(* less the one note it has read and not appended yet.                        *)
C18_EveryNoteAppendedOnce ==
  /\ (\A s \in Sessions : ~InCritical(s) /\ cpc[s] # "lock") =>
       /\ Len(received_notes_) = NotesRead
       /\ \A s \in Sessions : OwnedBy(s) = sent[s]
  /\ \A s \in Sessions :
       OwnedBy(s) = IF Pending(s) THEN Front(sent[s]) ELSE sent[s]

\* no session holds a note: the log has the three notes read, by two sessions,
\* one of them appended after a scan that wrote a note back
C18_Witness ==
  /\ \A s \in Sessions : cpc[s] \in {"read", "done"}
  /\ Len(received_notes_) = 3
  /\ owner[1] # owner[3]
  /\ \E s \in Sessions : \E k \in 1..Len(replay[s]) : replay[s][k] # <<>>
  /\ \E s \in Sessions : \E k \in 1..Len(replay[s]) : replay[s][k] = <<>>

(* C19: the replay is not filtered by sender: when an entry of the log was   *)
(* appended by the session that had appended an earlier entry at the same     *)
(* point, the earlier entry is in the replay for the later one; and when one  *)
(* session alone has appended all the entries, all at one point, its k-th     *)
(* replay has k - 1 notes.                                                     *)
C19_OwnNotesReplayed ==
  /\ \A j \in 1..Len(received_notes_) : \A i \in 1..(j - 1) :
       (owner[i] = owner[j] /\ received_notes_[i].location = received_notes_[j].location)
         => LET r == replay[owner[j]][CountOwner(owner[j], j)]
            IN \E k \in 1..Len(r) : r[k] = received_notes_[i]
  /\ \A s \in Sessions :
       ( /\ \A j \in 1..Len(owner) : owner[j] = s
         /\ \A j \in 1..Len(received_notes_) :
              received_notes_[j].location = received_notes_[1].location )
       => \A k \in 1..Len(replay[s]) : Len(replay[s][k]) = k - 1

\* one session has sent three notes at one point and got 0, 1 and 2 notes back
C19_Witness ==
  \E s \in Sessions :
    /\ owner = <<s, s, s>>
    /\ received_notes_[1].location = received_notes_[2].location
    /\ received_notes_[2].location = received_notes_[3].location
    /\ Len(replay[s][1]) = 0 /\ Len(replay[s][2]) = 1 /\ Len(replay[s][3]) = 2
    /\ replay[s][3] = <<received_notes_[1], received_notes_[2]>>

(* C20: after every point RecordRoute has read, feature_count is at least 0  *)
(* and at most point_count, and it is the number of points read whose first   *)
(* entry in the feature list has a name: a point whose first entry has no     *)
(* name is not counted, whatever the later entries at that point.             *)
C20_FeatureCountBounded ==
  qpc \in {"rr_read", "rr_done"} =>
    /\ 0 <= rr.feature_count
    /\ rr.feature_count <= rr.point_count
    /\ rr.point_count = Len(rr.points)
    /\ rr.feature_count =
         Cardinality({i \in 1..Len(rr.points) :
                        /\ At(rr.points[i]) # {}
                        /\ feature_list_[Least(At(rr.points[i]))].name # ""})

\* a point was read whose first entry has no name and whose second has one:
\* it is not counted
C20_Witness ==
  /\ qpc = "rr_read"
  /\ rr.point_count = 1
  /\ At(rr.points[1]) = {1, 2}
  /\ feature_list_[1].name = ""
  /\ feature_list_[2].name # ""
  /\ rr.feature_count = 0
====
